---- MODULE Spec2Model ----
(***************************************************************************)
(* Model of mydofns/synthetic_sdfn_streaming.py: one MyPartition element,  *)
(* the MyPartitionRestrictionTracker objects created for it, and the       *)
(* generator ProcessPartitionsSplittableDoFn.process run once per tracker. *)
(* Every method call is one atomic step; the runner's try_split calls may  *)
(* fall between any two steps of a running process generator.  The         *)
(* residual of an accepted split is given to a fresh tracker and a new     *)
(* process generator over the same MyPartition object.                     *)
(***************************************************************************)
EXTENDS Integers, Sequences, FiniteSets

(* ------------------------------ bounds --------------------------------- *)

\* number of process generators ever started on the element (Spec)
MaxWorkers == 2
\* number of trackers ever created when the tracker is called directly
\* (TrackerSpec)
MaxTrackers == 3
\* largest committed_offset GeneratePartitionsDoFn is let to draw
MaxInitCommitted == 1
\* how far above committed_offset the initial last_offset is let to be drawn
MaxInitBacklog == 1
\* cap on last_offset: add_new_messages is not called beyond it
MaxLastOffset == 24
\* horizon: no process iteration starts once committed_offset has reached it
MaxCommittedOffset == 3
\* largest position handed to try_claim by a direct caller (TrackerSpec)
MaxClaimPosition == 3

(* ------------------------- program constants --------------------------- *)

NUM_PARTITIONS == 4
\* the element modelled is the first that GeneratePartitionsDoFn yields (k = 0);
\* elements are independent of each other and the id is only ever emitted
PartitionId == 0
INITIAL_MAX_SIZE == 120
MAX_INITIAL_COMMITTED == 20
MIN_ADD_NEW_MSGS == 20
MAX_ADD_NEW_MSGS == 100
MAX_EMPTY_POLLS == 10

\* sys.maxsize, the stop of an initial restriction.  It is 2^63 - 1 on a
\* 64-bit build; the model only compares it with offsets, and uses the largest
\* value of the model checker's integers.
maxsize == 2147483647

\* Python's None where an offset is expected (poll's empty return,
\* _last_claim_attempt before any claim).  Offsets are >= 0.
None == -1

\* fraction_of_remainder values, in percent: only `== 0` is ever tested
Fractions == {0, 50}

Workers == 1..MaxTrackers

Min(a, b) == IF a <= b THEN a ELSE b

(* ------------------------------ state ---------------------------------- *)

VARIABLES
  element,            \* the MyPartition: [id, last_offset, committed_offset]
  tracker,            \* per worker: [range, last_claim_attempt, checkpointed]
  pc,                 \* per worker: position of its process generator
  offset_to_process,  \* per worker: local of process
  n_times_empty,      \* per worker: local of process
  output,             \* the (id, msg) pairs yielded so far, in order
  last,               \* history: the tracker call or growth made by the latest step
  c0,                 \* history: committed_offset at construction
  cycles,             \* history: number of commit() calls made
  claimed,            \* history: per worker, offsets its tracker accepted
  polled,             \* history: per worker, its previous non-None poll
  parent,             \* history: per worker, the worker whose split made it
  before_commit,      \* history: committed_offset before the latest commit()
                      \* and the offset its caller had polled
  empty_polls         \* history: per worker, polls that returned None since
                      \* its latest poll that returned an offset, counted
                      \* up to MAX_EMPTY_POLLS + 2

vars == <<element, tracker, pc, offset_to_process, n_times_empty, output,
          last, c0, cycles, claimed, polled, parent, before_commit, empty_polls>>

(* ---------------------------- MyPartition ------------------------------ *)

MyPartition(id, last_offset, committed_offset) ==
  [id |-> id, last_offset |-> last_offset, committed_offset |-> committed_offset]

\* poll with the comparison off by one
poll_ge(e) ==
  LET offset == e.committed_offset + 1
  IN  IF offset >= e.last_offset THEN None ELSE offset

\* poll without the comparison with last_offset
poll_unchecked(e) == e.committed_offset + 1

poll(e) ==
  LET offset == e.committed_offset + 1
  IN  IF offset > e.last_offset THEN None ELSE offset

\* commit advancing by two
commit_twice(e) == [e EXCEPT !.committed_offset = @ + 2]

\* commit that loses its update
commit_lost(e) == e

commit(e) == [e EXCEPT !.committed_offset = @ + 1]

size(e) == e.last_offset + 1

get_committed_position(e) == e.committed_offset

\* add_new_messages assigning the count instead of adding it
add_new_messages_assigns(e, n) == [e EXCEPT !.last_offset = n]

add_new_messages(e, n) == [e EXCEPT !.last_offset = @ + n]

(* ------------------ OffsetRange / OffsetRestrictionTracker ------------- *)

OffsetRange(start, stop) == [start |-> start, stop |-> stop]

split_at(r, split_offset) ==
  <<OffsetRange(r.start, split_offset), OffsetRange(split_offset, r.stop)>>

OffsetRestrictionTracker(offset_range) ==
  [range |-> offset_range, last_claim_attempt |-> None, checkpointed |-> FALSE]

\* try_claim accepting the position of the last claim again
try_claim_ge(t, position) ==
  LET ok == /\ IF t.last_claim_attempt = None
                 THEN position >= t.range.start
                 ELSE position >= t.last_claim_attempt
            /\ position < t.range.stop
  IN  [tracker |-> IF ok THEN [t EXCEPT !.last_claim_attempt = position] ELSE t,
       result  |-> ok]

\* result: the tracker after the call and the value returned
try_claim(t, position) ==
  LET ok == /\ IF t.last_claim_attempt = None
                 THEN position >= t.range.start
                 ELSE position > t.last_claim_attempt
            /\ position < t.range.stop
  IN  [tracker |-> IF ok THEN [t EXCEPT !.last_claim_attempt = position] ELSE t,
       result  |-> ok]

(* -------------------- MyPartitionRestrictionTracker -------------------- *)

\* try_split without the test of _checkpointed
try_split_unguarded(t, fraction_of_remainder) ==
  LET cur == IF t.last_claim_attempt = None
               THEN t.range.start - 1
               ELSE t.last_claim_attempt
      split_point == cur + 1
  IN  IF split_point <= t.range.stop
        THEN LET parts == split_at(t.range, split_point)
             IN  [tracker |-> [t EXCEPT
                                 !.checkpointed =
                                   IF fraction_of_remainder = 0 THEN TRUE ELSE @,
                                 !.range = parts[1]],
                  result  |-> parts]
        ELSE [tracker |-> t, result |-> <<>>]

\* try_split with split_point = cur, the last claimed offset itself
try_split_at_cur(t, fraction_of_remainder) ==
  IF ~t.checkpointed
    THEN LET cur == IF t.last_claim_attempt = None
                      THEN t.range.start - 1
                      ELSE t.last_claim_attempt
             split_point == cur
         IN  IF split_point <= t.range.stop
               THEN LET parts == split_at(t.range, split_point)
                    IN  [tracker |-> [t EXCEPT
                                        !.checkpointed =
                                          IF fraction_of_remainder = 0 THEN TRUE ELSE @,
                                        !.range = parts[1]],
                         result  |-> parts]
               ELSE [tracker |-> t, result |-> <<>>]
    ELSE [tracker |-> t, result |-> <<>>]

\* try_split that returns the two parts and keeps its own range as it was
try_split_keeps_range(t, fraction_of_remainder) ==
  IF ~t.checkpointed
    THEN LET cur == IF t.last_claim_attempt = None
                      THEN t.range.start - 1
                      ELSE t.last_claim_attempt
             split_point == cur + 1
         IN  IF split_point <= t.range.stop
               THEN LET parts == split_at(t.range, split_point)
                    IN  [tracker |-> [t EXCEPT
                                        !.checkpointed =
                                          IF fraction_of_remainder = 0 THEN TRUE ELSE @],
                         result  |-> parts]
               ELSE [tracker |-> t, result |-> <<>>]
    ELSE [tracker |-> t, result |-> <<>>]

\* try_split that writes _checkpointed from the fraction before testing it
try_split_writes_flag(t, fraction_of_remainder) ==
  IF ~t.checkpointed
    THEN LET cur == IF t.last_claim_attempt = None
                      THEN t.range.start - 1
                      ELSE t.last_claim_attempt
             split_point == cur + 1
         IN  IF split_point <= t.range.stop
               THEN LET parts == split_at(t.range, split_point)
                    IN  [tracker |-> [t EXCEPT
                                        !.checkpointed =
                                          IF fraction_of_remainder = 0 THEN TRUE ELSE @,
                                        !.range = parts[1]],
                         result  |-> parts]
               ELSE [tracker |-> t, result |-> <<>>]
    ELSE [tracker |-> [t EXCEPT !.checkpointed = (fraction_of_remainder = 0)],
          result  |-> <<>>]

\* try_split placing the split point by the fraction (given in percent) of
\* the remainder, as the tracker it overrides does
try_split_by_fraction(t, fraction_of_remainder) ==
  IF ~t.checkpointed
    THEN LET cur == IF t.last_claim_attempt = None
                      THEN t.range.start - 1
                      ELSE t.last_claim_attempt
             part == ((t.range.stop - cur) \div 100) * fraction_of_remainder
             split_point == cur + (IF part > 1 THEN part ELSE 1)
         IN  IF split_point <= t.range.stop
               THEN LET parts == split_at(t.range, split_point)
                    IN  [tracker |-> [t EXCEPT
                                        !.checkpointed =
                                          IF fraction_of_remainder = 0 THEN TRUE ELSE @,
                                        !.range = parts[1]],
                         result  |-> parts]
               ELSE [tracker |-> t, result |-> <<>>]
    ELSE [tracker |-> t, result |-> <<>>]

\* result: the tracker after the call and the value returned, <<>> for the
\* implicit None and <<retained, residual>> for an accepted split
try_split(t, fraction_of_remainder) ==
  IF ~t.checkpointed
    THEN LET cur == IF t.last_claim_attempt = None
                      THEN t.range.start - 1
                      ELSE t.last_claim_attempt
             split_point == cur + 1
         IN  IF split_point <= t.range.stop
               THEN LET parts == split_at(t.range, split_point)
                    IN  [tracker |-> [t EXCEPT
                                        !.checkpointed =
                                          IF fraction_of_remainder = 0 THEN TRUE ELSE @,
                                        !.range = parts[1]],
                         result  |-> parts]
               ELSE [tracker |-> t, result |-> <<>>]
    ELSE [tracker |-> t, result |-> <<>>]

is_bounded(t) == FALSE

(* ------------------ ProcessPartitionsSplittableDoFn -------------------- *)

create_tracker(restriction) == OffsetRestrictionTracker(restriction)

initial_restriction(e) ==
  LET committed_offset == get_committed_position(e)
  IN  OffsetRange((IF committed_offset = None THEN -1 ELSE committed_offset) + 1,
                  maxsize)

restriction_size(e, restriction) == restriction.stop - restriction.start

\* a call on a tracker: its name, the worker whose tracker it is, its
\* argument and the value returned (as a tuple; <<>> for None)
Call(op, w, arg, result) == [op |-> op, w |-> w, arg |-> arg, result |-> result]

\* the latest step was no tracker call
NoCall == Call("", 0, None, <<>>)

\* a tracker slot not yet used
NoTracker == OffsetRestrictionTracker(OffsetRange(0, 0))

Created == {w \in Workers : pc[w] /= "NONE"}

\* GeneratePartitionsDoFn.process draws the element, with last_offset in
\* `backlog` above committed_offset; initial_restriction and create_tracker
\* give worker 1 its tracker
InitWith(backlog) ==
  /\ \E id \in {PartitionId} \cap (0..(NUM_PARTITIONS - 1)),
        committed_offset \in 0..Min(MAX_INITIAL_COMMITTED, MaxInitCommitted) :
       \E last_offset \in {committed_offset + b : b \in backlog} :
          /\ last_offset <= INITIAL_MAX_SIZE
          /\ element = MyPartition(id, last_offset, committed_offset)
          /\ c0 = committed_offset
  /\ tracker = [w \in Workers |->
                  IF w = 1 THEN create_tracker(initial_restriction(element))
                           ELSE NoTracker]
  /\ pc = [w \in Workers |-> IF w = 1 THEN "POLLING" ELSE "NONE"]
  /\ offset_to_process = [w \in Workers |-> None]
  /\ n_times_empty = [w \in Workers |-> 0]
  /\ output = <<>>
  /\ last = NoCall
  /\ cycles = 0
  /\ claimed = [w \in Workers |-> {}]
  /\ polled = [w \in Workers |-> None]
  /\ parent = [w \in Workers |-> 0]
  /\ before_commit = [committed |-> None, polled |-> None]
  /\ empty_polls = [w \in Workers |-> 0]

\* an element with messages waiting up to the horizon and beyond
Init == InitWith(MaxCommittedOffset..(MaxCommittedOffset + MaxInitBacklog))

\* an element with few or no messages waiting
LoopInit == InitWith(0..MaxInitBacklog)

\* line 89
Poll(w) ==
  /\ pc[w] = "POLLING"
  /\ element.committed_offset < MaxCommittedOffset
  /\ LET offset == poll(element)
     IN  /\ offset_to_process' = [offset_to_process EXCEPT ![w] = offset]
         /\ pc' = [pc EXCEPT ![w] = IF offset /= None THEN "CLAIMING" ELSE "WAITING"]
         /\ polled' = [polled EXCEPT ![w] = IF offset /= None THEN offset ELSE @]
         /\ empty_polls' = [empty_polls EXCEPT ![w] =
                              IF offset /= None THEN 0 ELSE Min(@ + 1, MAX_EMPTY_POLLS + 2)]
         /\ last' = NoCall
  /\ UNCHANGED <<element, tracker, n_times_empty, output, c0, cycles, claimed, parent,
                 before_commit>>

\* Claim going on to the growth code after a failed claim instead of returning
ClaimGoesOn(w) ==
  /\ pc[w] = "CLAIMING"
  /\ LET r == try_claim(tracker[w], offset_to_process[w])
     IN  /\ tracker' = [tracker EXCEPT ![w] = r.tracker]
         /\ last' = Call("try_claim", w, offset_to_process[w], <<r.result>>)
         /\ pc' = [pc EXCEPT ![w] = IF r.result THEN "EMITTING" ELSE "WAITING"]
         /\ claimed' = [claimed EXCEPT ![w] =
                          IF r.result THEN @ \cup {offset_to_process[w]} ELSE @]
  /\ UNCHANGED <<element, offset_to_process, n_times_empty, polled, output, c0,
                 cycles, parent, before_commit,
                 empty_polls>>

\* lines 91, 95-96: a failed claim returns from the generator, whose locals
\* are gone with its frame
Claim(w) ==
  /\ pc[w] = "CLAIMING"
  /\ LET r == try_claim(tracker[w], offset_to_process[w])
     IN  /\ tracker' = [tracker EXCEPT ![w] = r.tracker]
         /\ last' = Call("try_claim", w, offset_to_process[w], <<r.result>>)
         /\ IF r.result
              THEN /\ pc' = [pc EXCEPT ![w] = "EMITTING"]
                   /\ claimed' = [claimed EXCEPT ![w] = @ \cup {offset_to_process[w]}]
                   /\ UNCHANGED <<offset_to_process, n_times_empty, polled, empty_polls>>
              ELSE /\ pc' = [pc EXCEPT ![w] = "TERMINATED"]
                   /\ offset_to_process' = [offset_to_process EXCEPT ![w] = None]
                   /\ n_times_empty' = [n_times_empty EXCEPT ![w] = 0]
                   /\ polled' = [polled EXCEPT ![w] = None]
                   /\ empty_polls' = [empty_polls EXCEPT ![w] = 0]
                   /\ UNCHANGED claimed
  /\ UNCHANGED <<element, output, c0, cycles, parent, before_commit>>

\* lines 92-93: the message carries the offset and element.size()
Emit(w) ==
  /\ pc[w] = "EMITTING"
  /\ output' = Append(output, <<element.id, offset_to_process[w], size(element)>>)
  /\ pc' = [pc EXCEPT ![w] = "COMMITTING"]
  /\ last' = NoCall
  /\ UNCHANGED <<element, tracker, offset_to_process, n_times_empty, c0, cycles,
                 claimed, polled, parent, before_commit,
                 empty_polls>>

\* line 94
Commit(w) ==
  /\ pc[w] = "COMMITTING"
  /\ element' = commit(element)
  /\ cycles' = cycles + 1
  /\ before_commit' = [committed |-> get_committed_position(element),
                       polled |-> offset_to_process[w]]
  /\ pc' = [pc EXCEPT ![w] = "WAITING"]
  /\ last' = NoCall
  /\ UNCHANGED <<tracker, offset_to_process, n_times_empty, output, c0, claimed,
                 polled, parent,
                 empty_polls>>

\* _add_new_messages: random.randint(MIN_ADD_NEW_MSGS, MAX_ADD_NEW_MSGS)
AddNewMessages(w) ==
  \E n \in MIN_ADD_NEW_MSGS..MAX_ADD_NEW_MSGS :
     /\ element.last_offset + n <= MaxLastOffset
     /\ element' = add_new_messages(element, n)
     /\ last' = Call("add_new_messages", w, n, <<>>)

\* Wait that injects the forced growth and leaves the counter as it is
WaitKeepsCount(w) ==
  /\ pc[w] = "WAITING"
  /\ LET n == IF offset_to_process[w] = None
                THEN n_times_empty[w] + 1
                ELSE n_times_empty[w]
     IN  /\ n_times_empty' = [n_times_empty EXCEPT ![w] = n]
         /\ IF n > MAX_EMPTY_POLLS
              THEN AddNewMessages(w)
              ELSE \/ AddNewMessages(w)
                   \/ /\ element' = element
                      /\ last' = NoCall
  /\ pc' = [pc EXCEPT ![w] = "POLLING"]
  /\ UNCHANGED <<tracker, offset_to_process, output, c0, cycles, claimed, polled,
                 parent, before_commit,
                 empty_polls>>

\* Wait that resets the counter and injects no forced growth
WaitNeverForces(w) ==
  /\ pc[w] = "WAITING"
  /\ LET n == IF offset_to_process[w] = None
                THEN n_times_empty[w] + 1
                ELSE n_times_empty[w]
     IN  IF n > MAX_EMPTY_POLLS
           THEN /\ n_times_empty' = [n_times_empty EXCEPT ![w] = 0]
                /\ element' = element
                /\ last' = NoCall
           ELSE /\ n_times_empty' = [n_times_empty EXCEPT ![w] = n]
                /\ \/ AddNewMessages(w)
                   \/ /\ element' = element
                      /\ last' = NoCall
  /\ pc' = [pc EXCEPT ![w] = "POLLING"]
  /\ UNCHANGED <<tracker, offset_to_process, output, c0, cycles, claimed, polled,
                 parent, before_commit,
                 empty_polls>>

\* lines 99-111: count the empty poll, inject growth, sleep
Wait(w) ==
  /\ pc[w] = "WAITING"
  /\ LET n == IF offset_to_process[w] = None
                THEN n_times_empty[w] + 1
                ELSE n_times_empty[w]
     IN  IF n > MAX_EMPTY_POLLS
           THEN /\ AddNewMessages(w)
                /\ n_times_empty' = [n_times_empty EXCEPT ![w] = 0]
           ELSE /\ n_times_empty' = [n_times_empty EXCEPT ![w] = n]
                /\ \/ AddNewMessages(w)
                   \/ /\ element' = element
                      /\ last' = NoCall
  /\ pc' = [pc EXCEPT ![w] = "POLLING"]
  /\ UNCHANGED <<tracker, offset_to_process, output, c0, cycles, claimed, polled,
                 parent, before_commit,
                 empty_polls>>

\* try_split is called on the tracker of a process that has not returned;
\* the residual of an accepted split goes through create_tracker to a new
\* process over the same element.  No more than `limit` trackers are made.
SplitUnder(w, fraction_of_remainder, limit) ==
  /\ pc[w] \notin {"NONE", "TERMINATED"}
  /\ LET r == try_split(tracker[w], fraction_of_remainder)
     IN  /\ last' = Call("try_split", w, fraction_of_remainder, r.result)
         /\ IF r.result /= <<>>
              THEN /\ Cardinality(Created) < limit
                   /\ LET nw == CHOOSE x \in Workers \ Created :
                                  \A y \in Workers \ Created : x <= y
                      IN  /\ tracker' = [tracker EXCEPT
                                           ![w] = r.tracker,
                                           ![nw] = create_tracker(r.result[2])]
                          /\ pc' = [pc EXCEPT ![nw] = "POLLING"]
                          /\ parent' = [parent EXCEPT ![nw] = w]
              ELSE /\ tracker' = [tracker EXCEPT ![w] = r.tracker]
                   /\ UNCHANGED <<pc, parent>>
  /\ UNCHANGED <<element, offset_to_process, n_times_empty, output, c0, cycles,
                 claimed, polled, before_commit,
                 empty_polls>>

\* the runner splits the restriction of a running process
TrySplit(w, fraction_of_remainder) == SplitUnder(w, fraction_of_remainder, MaxWorkers)

Next ==
  \/ \E w \in Workers : Poll(w)
  \/ \E w \in Workers : Claim(w)
  \/ \E w \in Workers : Emit(w)
  \/ \E w \in Workers : Commit(w)
  \/ \E w \in Workers : Wait(w)
  \/ \E w \in Workers, f \in Fractions : TrySplit(w, f)

Spec == Init /\ [][Next]_vars

\* one process generator on the initial restriction, never split
LoopNext ==
  \/ Poll(1)
  \/ Claim(1)
  \/ Emit(1)
  \/ Commit(1)
  \/ Wait(1)

LoopSpec == LoopInit /\ [][LoopNext]_vars

\* the runner keeps driving the generator and every sleep ends, so the loop
\* takes its next step whenever it has one
LoopFairSpec == LoopSpec /\ WF_vars(LoopNext)

(* ------- one split: a retained worker and the worker of its residual, --- *)
(* ------- on an element with few or no messages waiting ------------------ *)

PairSplit(w, fraction_of_remainder) == SplitUnder(w, fraction_of_remainder, 2)

HandoffNext ==
  \/ \E w \in Workers : Poll(w)
  \/ \E w \in Workers : Claim(w)
  \/ \E w \in Workers : Emit(w)
  \/ \E w \in Workers : Commit(w)
  \/ \E w \in Workers : Wait(w)
  \/ \E w \in Workers, f \in Fractions : PairSplit(w, f)

HandoffSpec == LoopInit /\ [][HandoffNext]_vars

(* ---------- the tracker called directly, in any order of calls ---------- *)

TrackerClaim(w, position) ==
  /\ pc[w] /= "NONE"
  /\ LET r == try_claim(tracker[w], position)
     IN  /\ tracker' = [tracker EXCEPT ![w] = r.tracker]
         /\ claimed' = [claimed EXCEPT ![w] = IF r.result THEN @ \cup {position} ELSE @]
         /\ last' = Call("try_claim", w, position, <<r.result>>)
  /\ UNCHANGED <<element, pc, offset_to_process, n_times_empty, output, c0, cycles,
                 polled, parent, before_commit,
                 empty_polls>>

TrackerSplit(w, fraction_of_remainder) ==
  SplitUnder(w, fraction_of_remainder, MaxTrackers)

TrackerNext ==
  \/ \E w \in Workers, position \in 0..MaxClaimPosition : TrackerClaim(w, position)
  \/ \E w \in Workers, f \in Fractions : TrackerSplit(w, f)

TrackerSpec == Init /\ [][TrackerNext]_vars

(* ------------------------------ claims --------------------------------- *)

\* the step is worker w's call of element.poll() (line 89)
PollStep(w) == pc[w] = "POLLING" /\ pc'[w] /= "POLLING"

\* C1: every poll() returns committed_offset + 1 when that is <= last_offset
\* and None otherwise, so never a value above last_offset, and leaves every
\* field of the partition as it was.
C1_PollContract ==
  [][\A w \in Workers :
       PollStep(w) =>
         /\ element' = element
         /\ offset_to_process'[w] =
              (IF element.committed_offset + 1 <= element.last_offset
                 THEN element.committed_offset + 1
                 ELSE None)
         /\ offset_to_process'[w] <= element.last_offset]_vars

\* C1 witness: a poll has returned None after an earlier poll returned an
\* offset that was claimed and committed.
C1_Witness ==
  /\ pc[1] = "WAITING"
  /\ offset_to_process[1] = None
  /\ polled[1] /= None
  /\ cycles >= 1

\* the offsets every tracker has accepted
AllClaimed == UNION {claimed[w] : w \in Workers}

\* the workers between a successful try_claim and the commit() that follows it
MidCycle == {w \in Workers : pc[w] \in {"EMITTING", "COMMITTING"}}

\* C2: after k successful commit cycles (an offset polled, claimed and
\* committed) from committed_offset = c0, committed_offset = c0 + k, whatever
\* growth and empty polls came in between; a cycle under way is counted once
\* its commit is done.
C2_CommittedCountsCycles ==
  /\ element.committed_offset = c0 + cycles
  /\ cycles = Cardinality(AllClaimed) - Cardinality(MidCycle)

\* C2 witness: two cycles completed, with empty polls and a growth event
\* in the run.
C2_Witness ==
  /\ cycles >= 2
  /\ n_times_empty[1] > 0
  /\ element.last_offset >= MIN_ADD_NEW_MSGS

\* the tracker of w has been split: some worker runs on a residual of it
WasSplit(w) == \E c \in Workers : parent[c] = w

\* C3, first part: after a commit(), a poll() returns committed_offset_before
\* + 2 or None, never the offset polled before the commit or a lower one.
C3_PollAfterCommit ==
  \A w \in Workers :
    PollStep(w) /\ before_commit.committed /= None =>
      \/ offset_to_process'[w] = None
      \/ /\ offset_to_process'[w] = before_commit.committed + 2
         /\ offset_to_process'[w] > before_commit.polled

\* C3 as stated: the above, and the non-None values poll() returns in one
\* processing loop go up by exactly 1.
C3_Original ==
  [][/\ C3_PollAfterCommit
     /\ \A w \in Workers :
          PollStep(w) /\ polled[w] /= None /\ offset_to_process'[w] /= None =>
            offset_to_process'[w] = polled[w] + 1]_vars

\* C3 amended: the first part, and the non-None values poll() returns in one
\* processing loop are strictly increasing, by exactly 1 as long as the loop's
\* tracker has not been split.
C3_PollsIncrease ==
  [][/\ C3_PollAfterCommit
     /\ \A w \in Workers :
          PollStep(w) /\ polled[w] /= None /\ offset_to_process'[w] /= None =>
            /\ offset_to_process'[w] > polled[w]
            /\ ~WasSplit(w) => offset_to_process'[w] = polled[w] + 1]_vars

\* C3 witness: a worker whose tracker was split has polled an offset more than
\* 1 above the last one it polled and claimed, the residual's worker having
\* committed in between.
C3_Witness ==
  \E w \in Workers :
    /\ WasSplit(w)
    /\ pc[w] = "CLAIMING"
    /\ claimed[w] /= {}
    /\ \A x \in claimed[w] : offset_to_process[w] > x + 1
    /\ offset_to_process[w] = before_commit.committed + 2


\* the step is a call of try_claim on the tracker of w
ClaimCall(w) == last'.op = "try_claim" /\ last'.w = w

\* the step is a call of try_split on the tracker of w
SplitCall(w) == last'.op = "try_split" /\ last'.w = w

\* C4: on one tracker, once x has been claimed no try_claim(y) with y <= x
\* succeeds, whatever try_claim and try_split calls come in between: the
\* offsets a tracker accepts are strictly increasing.
C4_ClaimsStrictlyIncrease ==
  [][\A w \in Workers :
       ClaimCall(w) /\ last'.result = <<TRUE>> =>
         /\ \A x \in claimed[w] : last'.arg > x
         /\ claimed'[w] = claimed[w] \cup {last'.arg}]_vars

\* C4 witness: try_claim(y) has just failed on a tracker that had accepted
\* some x >= y and has been split since it was made.
C4_Witness ==
  /\ last.op = "try_claim"
  /\ last.result = <<FALSE>>
  /\ \E x \in claimed[last.w] : last.arg <= x
  /\ WasSplit(last.w)

\* C5: try_split(0) leaves the tracker checkpointed, and on a checkpointed
\* tracker every try_split, for any fraction, returns None and changes
\* nothing; no call takes a tracker out of checkpoint mode.
C5_CheckpointForeclosesSplits ==
  [][\A w \in Workers :
       /\ SplitCall(w) /\ last'.arg = 0 => tracker'[w].checkpointed
       /\ pc[w] /= "NONE" /\ tracker[w].checkpointed =>
            /\ tracker'[w].checkpointed
            /\ tracker'[w].range = tracker[w].range
            /\ SplitCall(w) =>
                 /\ last'.result = <<>>
                 /\ tracker' = tracker
                 /\ pc' = pc]_vars

\* C5 witness: a try_split with a non-zero fraction has just been refused on a
\* tracker that try_split(0) checkpointed after it had accepted a claim.
C5_Witness ==
  /\ last.op = "try_split"
  /\ last.arg /= 0
  /\ last.result = <<>>
  /\ tracker[last.w].checkpointed
  /\ claimed[last.w] /= {}

\* C6: an accepted try_split(f) returns a split point above every offset the
\* tracker has accepted; the residual starts at the split point and stops at
\* the stop the tracker had before the call, and the tracker keeps the range
\* up to the split point.
C6_SplitPointPastClaims ==
  [][\A w \in Workers :
       SplitCall(w) /\ last'.result /= <<>> =>
         LET retained == last'.result[1]
             residual == last'.result[2]
         IN  /\ \A x \in claimed[w] : retained.stop > x
             /\ residual.start = retained.stop
             /\ residual.stop = tracker[w].range.stop
             /\ retained.start = tracker[w].range.start
             /\ tracker'[w].range = retained]_vars

\* C6 witness: a split has just been accepted on a tracker that had accepted
\* claims and whose stop an earlier split had already lowered.
C6_Witness ==
  /\ last.op = "try_split"
  /\ last.result /= <<>>
  /\ claimed[last.w] /= {}
  /\ last.result[2].stop /= maxsize

RECURSIVE Ancestors(_)
\* the workers from whose trackers the tracker of w derives by splits
Ancestors(w) == IF parent[w] = 0 THEN {} ELSE {parent[w]} \cup Ancestors(parent[w])

\* C7: every offset claimed through a tracker that was split, before or after
\* the split, is below every offset claimed through the tracker of its
\* residual (and of the residuals of that one), in every interleaving of the
\* workers.
C7_RetainedBelowResidual ==
  \A c \in Workers :
    \A a \in Ancestors(c) :
      \A x \in claimed[a], y \in claimed[c] : x < y

\* C7 witness: the retained and the residual tracker of a split have each
\* accepted a claim, and the worker of the retained one is still running.
C7_Witness ==
  \E c \in Workers :
    /\ parent[c] /= 0
    /\ claimed[c] /= {}
    /\ claimed[parent[c]] /= {}
    /\ pc[parent[c]] /= "TERMINATED"

\* the trackers whose range holds offset o
Owners(o) ==
  {w \in Created : tracker[w].range.start <= o /\ o < tracker[w].range.stop}

\* C8: the ranges of the trackers made by splits from the initial restriction
\* [c0 + 1, maxsize) are pairwise disjoint and their union is that
\* restriction: every offset of it lies in exactly one range.  No split point
\* is above MaxClaimPosition + 1, so the offsets above it share one owner.
C8_RangesPartitionInitial ==
  /\ \A o \in ((c0 + 1)..(MaxClaimPosition + 2)) \cup {maxsize - 1} :
       Cardinality(Owners(o)) = 1
  /\ \A w \in Created :
       /\ c0 + 1 <= tracker[w].range.start
       /\ tracker[w].range.start <= tracker[w].range.stop
       /\ tracker[w].range.stop <= maxsize
       /\ tracker[w].range.stop = maxsize
            \/ tracker[w].range.stop <= MaxClaimPosition + 1
  /\ \A a, b \in Created :
       a /= b => \/ tracker[a].range.stop <= tracker[b].range.start
                 \/ tracker[b].range.stop <= tracker[a].range.start

\* C8 witness: a residual has itself been split, and the three ranges are
\* non-empty.
C8_Witness ==
  \E a, b \in Workers :
    /\ parent[a] /= 0
    /\ parent[b] = a
    /\ \A w \in {parent[a], a, b} : tracker[w].range.start < tracker[w].range.stop

\* C9: a failed try_claim takes the loop to TERMINATED in that step, with
\* nothing emitted or committed; a worker in TERMINATED never takes another
\* step (every step of a worker moves its pc), so it never polls, claims,
\* emits, commits or adds messages again.
C9_ClaimFailureTerminal ==
  [][\A w \in Workers :
       /\ pc[w] = "CLAIMING" /\ ClaimCall(w) /\ last'.result = <<FALSE>> =>
            /\ pc'[w] = "TERMINATED"
            /\ element' = element
            /\ output' = output
            /\ claimed' = claimed
       /\ pc[w] = "CLAIMING" /\ pc'[w] /= "CLAIMING" /\ pc'[w] /= "TERMINATED" =>
            last'.result = <<TRUE>>
       /\ pc[w] = "TERMINATED" =>
            /\ pc'[w] = "TERMINATED"
            /\ claimed'[w] = claimed[w]
            /\ offset_to_process'[w] = offset_to_process[w]
            /\ n_times_empty'[w] = n_times_empty[w]
            /\ ~ClaimCall(w)]_vars

\* C9 witness: a worker is in TERMINATED after a failed claim while the worker
\* of its residual has claimed, emitted and committed an offset.
C9_Witness ==
  \E w, c \in Workers :
    /\ pc[w] = "TERMINATED"
    /\ parent[c] = w
    /\ claimed[c] /= {}
    /\ pc[c] = "WAITING"

\* C10: a refused try_split returns None and leaves the range,
\* last_claim_attempt and checkpointed of the tracker, and every other
\* tracker, as they were; no tracker is made.
C10_RefusalChangesNothing ==
  [][\A w \in Workers :
       SplitCall(w) /\ last'.result = <<>> =>
         /\ tracker' = tracker
         /\ pc' = pc
         /\ parent' = parent
         /\ claimed' = claimed]_vars

\* C10 witness: a try_split with fraction 0 has just been refused.
C10_Witness ==
  /\ last.op = "try_split"
  /\ last.arg = 0
  /\ last.result = <<>>

(* ------------------------------- C11 ------------------------------------ *)

\* C11: a call add_new_messages(n), n > 0, raises last_offset by exactly n
\* and leaves committed_offset and id as they were; size() is last_offset + 1
\* before the call and after it.
C11_GrowthFrame ==
  [][last'.op = "add_new_messages" =>
       /\ last'.arg > 0
       /\ element'.last_offset = element.last_offset + last'.arg
       /\ element'.committed_offset = element.committed_offset
       /\ element'.id = element.id
       /\ DOMAIN element' = DOMAIN element
       /\ size(element) = element.last_offset + 1
       /\ size(element') = element'.last_offset + 1]_vars

\* messages were added to an element that had messages and commits before
C11_Witness ==
  /\ last.op = "add_new_messages"
  /\ element.committed_offset > c0
  /\ element.last_offset > element.committed_offset + MIN_ADD_NEW_MSGS

(* ------------------------------- C12 ------------------------------------ *)

\* C12: for an element created with 0 <= committed_offset <= last_offset and
\* driven only by processing loops (one worker, or the workers of a split),
\* committed_offset <= last_offset + 1 in every reachable state, and no step
\* lowers committed_offset or last_offset.
C12_CommittedWithinLog ==
  [][/\ element.committed_offset <= element.last_offset + 1
     /\ element'.committed_offset <= element'.last_offset + 1
     /\ element'.committed_offset >= element.committed_offset
     /\ element'.last_offset >= element.last_offset]_vars

\* two workers have consumed every message and one of them has polled nothing
C12_Witness ==
  /\ Cardinality(Created) = 2
  /\ cycles > 0
  /\ element.committed_offset = element.last_offset
  /\ \E w \in Created : pc[w] = "WAITING" /\ offset_to_process[w] = None

(* ------------------------------- C13 ------------------------------------ *)

\* C13: over any sequence of try_claim and try_split calls on a tracker,
\* range.start keeps the value it had at creation and range.stop never
\* increases (an accepted split lowers it to the split point, nothing else
\* changes it); start <= stop in every reachable state of the tracker.
C13_RangeShrinksFromTheRight ==
  [][\A w \in Created :
       /\ tracker[w].range.start <= tracker[w].range.stop
       /\ tracker'[w].range.start <= tracker'[w].range.stop
       /\ tracker'[w].range.start = tracker[w].range.start
       /\ tracker'[w].range.stop <= tracker[w].range.stop
       /\ tracker'[w].range.stop /= tracker[w].range.stop =>
             /\ SplitCall(w)
             /\ last'.result /= <<>>
             /\ tracker'[w].range.stop = last'.result[2].start]_vars

\* the tracker of a residual, after claims, has had its own stop lowered by
\* an accepted split
C13_Witness ==
  /\ last.op = "try_split"
  /\ last.result /= <<>>
  /\ parent[last.w] /= 0
  /\ claimed[last.w] /= {}
  /\ tracker[last.w].range.stop < maxsize
  /\ tracker[last.w].range.start < tracker[last.w].range.stop

(* ------------------------------- C14 ------------------------------------ *)

\* the highest offset claimed on the tracker of w
LastClaimed(w) == CHOOSE x \in claimed[w] : \A y \in claimed[w] : y <= x

\* C14: an accepted try_split(f) splits at the last claimed offset + 1 when
\* an offset has been claimed and at range.start otherwise, whatever f is:
\* f only decides whether the tracker becomes checkpointed, so on the same
\* tracker state try_split(g) returns the same retained and residual ranges
\* for every other fraction g.
C14_SplitPointIgnoresFraction ==
  [][\A w \in Created :
       (SplitCall(w) /\ last'.result /= <<>>) =>
         LET split_point == IF claimed[w] /= {}
                              THEN LastClaimed(w) + 1
                              ELSE tracker[w].range.start
         IN  /\ last'.result[1] = OffsetRange(tracker[w].range.start, split_point)
             /\ last'.result[2] = OffsetRange(split_point, tracker[w].range.stop)
             /\ tracker'[w].checkpointed = (last'.arg = 0)
             /\ \A g \in Fractions :
                   /\ try_split(tracker[w], g).result = last'.result
                   /\ try_split(tracker[w], g).tracker.range = tracker'[w].range
                   /\ try_split(tracker[w], g).tracker.checkpointed = (g = 0)]_vars

\* a split with a non-zero fraction accepted after claims, on a tracker with
\* more than one offset left after the last claim
C14_Witness ==
  /\ last.op = "try_split"
  /\ last.arg /= 0
  /\ last.result /= <<>>
  /\ claimed[last.w] /= {}
  /\ last.result[2].stop > last.result[2].start + 1

(* ------------------------------- C15 ------------------------------------ *)

\* C15: whenever try_split is accepted the residual [split_point, stop)
\* holds at least one offset (split_point < stop), also when try_split is
\* called again with a non-zero fraction on a tracker that was split before
\* and has claimed nothing since.
C15_Original ==
  [][\A w \in Created :
       (SplitCall(w) /\ last'.result /= <<>>) =>
         last'.result[2].start < last'.result[2].stop]_vars

(* ------------------------------- C17 ------------------------------------ *)

\* C17: for a single worker on an element, growth is injected in the very
\* iteration in which its count of empty polls first exceeds MAX_EMPTY_POLLS,
\* and the count goes back to 0 there, so the worker never sees more than
\* MAX_EMPTY_POLLS + 1 empty polls in a row before poll() returns an offset;
\* a poll that returns an offset leaves the count as it is, only the forced
\* growth resets it, and it never exceeds MAX_EMPTY_POLLS + 1.
C17_WaitingIsBounded ==
  [][/\ empty_polls'[1] <= MAX_EMPTY_POLLS + 1
     /\ n_times_empty'[1] <= MAX_EMPTY_POLLS + 1
     /\ (pc[1] = "WAITING" /\ offset_to_process[1] = None
                           /\ n_times_empty[1] + 1 > MAX_EMPTY_POLLS) =>
           /\ last'.op = "add_new_messages"
           /\ element'.last_offset > element.last_offset
           /\ n_times_empty'[1] = 0
     /\ (pc[1] = "POLLING" /\ last.op = "add_new_messages"
                           /\ empty_polls[1] = MAX_EMPTY_POLLS + 1) =>
           /\ offset_to_process'[1] /= None
           /\ empty_polls'[1] = 0
     /\ (pc[1] = "POLLING" /\ offset_to_process'[1] /= None) =>
           n_times_empty'[1] = n_times_empty[1]
     /\ n_times_empty'[1] < n_times_empty[1] =>
           /\ pc[1] = "WAITING"
           /\ offset_to_process[1] = None
           /\ n_times_empty[1] = MAX_EMPTY_POLLS
           /\ last'.op = "add_new_messages"]_vars

\* after MAX_EMPTY_POLLS + 1 empty polls in a row and the forced growth, the
\* next poll has returned an offset, with the count at 0
C17_Witness ==
  /\ pc[1] = "CLAIMING"
  /\ cycles = 0
  /\ n_times_empty[1] = 0
  /\ empty_polls[1] = 0
  /\ element.last_offset >= element.committed_offset + MIN_ADD_NEW_MSGS
  /\ offset_to_process[1] = c0 + 1

(* ------------------------------- C18 ------------------------------------ *)

\* C18: in every interleaving of the workers made by splits on one element,
\* each commit() is made by the worker that has just claimed
\* committed_offset + 1 with success, and the offsets emitted by all the
\* workers together are emitted at most once each and are, in order,
\* c0 + 1, c0 + 2, ...
C18_OneGapFreeSequence ==
  [][/\ \A w \in Workers :
          (pc[w] = "COMMITTING" /\ pc'[w] /= "COMMITTING") =>
            /\ offset_to_process[w] = element.committed_offset + 1
            /\ offset_to_process[w] \in claimed[w]
            /\ tracker[w].last_claim_attempt = offset_to_process[w]
            /\ element'.committed_offset = offset_to_process[w]
     /\ element'.committed_offset /= element.committed_offset =>
          \E w \in Workers : pc[w] = "COMMITTING" /\ pc'[w] /= "COMMITTING"
     /\ \A i \in 1..Len(output') : output'[i][2] = c0 + i]_vars

\* the retained worker and the worker of its residual have both emitted
C18_Witness ==
  /\ Len(output) >= 3
  /\ \E w, c \in Workers :
        /\ parent[c] = w
        /\ claimed[w] /= {}
        /\ claimed[c] /= {}
        /\ pc[c] \in {"COMMITTING", "WAITING", "POLLING"}

(* ------------------------------- C19 ------------------------------------ *)

\* C19: in every interleaving of a retained worker and the worker of its
\* residual on the same element, the residual worker never tries to claim
\* an offset below the start of its restriction, so there is no state in
\* which every worker of the element is TERMINATED while offsets at or above
\* the split point are unprocessed.
C19_Original ==
  /\ last.op = "try_claim" => last.arg >= tracker[last.w].range.start
  /\ ~ /\ \A w \in Created : pc[w] = "TERMINATED"
       /\ element.committed_offset < element.last_offset

(* ------------------------------- C20 ------------------------------------ *)

\* the offsets of the messages emitted so far
Emitted == {output[i][2] : i \in 1..Len(output)}

\* C20: for an element with 0 <= committed_offset <= last_offset and a worker
\* on its initial restriction [committed_offset + 1, maxsize), never split:
\* the first offset polled is the start of the restriction, every try_claim
\* succeeds, the worker is never TERMINATED, and with the loop scheduled
\* fairly every offset above the initial committed_offset, here up to the
\* horizon MaxCommittedOffset, is eventually emitted and committed.
C20_UnsplitWorkerRunsOn ==
  /\ [](/\ pc[1] /= "TERMINATED"
        /\ tracker[1].range = OffsetRange(c0 + 1, maxsize)
        /\ last.op = "try_claim" => last.result = <<TRUE>>
        /\ (pc[1] = "CLAIMING" /\ claimed[1] = {}) =>
              offset_to_process[1] = tracker[1].range.start)
  /\ <>(/\ element.committed_offset = MaxCommittedOffset
        /\ Emitted = (c0 + 1)..MaxCommittedOffset)

\* the worker started on an empty element, went through the forced growth
\* and has emitted and committed every offset up to the horizon
C20_Witness ==
  /\ element.committed_offset = MaxCommittedOffset
  /\ Emitted = (c0 + 1)..MaxCommittedOffset
  /\ claimed[1] = Emitted
  /\ element.last_offset >= c0 + MIN_ADD_NEW_MSGS
  /\ pc[1] = "POLLING"

====
